---- MODULE Spec2Model ----
(***************************************************************************)
(* Model of frontend/scripts/llasa_mlx.py: the text-to-speech script that  *)
(* builds a chat prompt, asks the language model for a stream of speech    *)
(* tokens, parses the stream into integer ids, decodes the ids with the    *)
(* codec and writes gen.wav.                                               *)
(*                                                                         *)
(* A Python str is modelled as a sequence of one-character strings, so     *)
(* that replace, split, startswith, endswith, slicing and int() are        *)
(* computed character by character as Python computes them.                *)
(***************************************************************************)
EXTENDS Integers, Sequences, FiniteSets, TLC

(***************************************************************************)
(* String literals of the script.                                          *)
(***************************************************************************)
SPEECH_GENERATION_START ==
    << "<", "|", "S", "P", "E", "E", "C", "H", "_", "G", "E", "N", "E", "R",
       "A", "T", "I", "O", "N", "_", "S", "T", "A", "R", "T", "|", ">" >>

SPEECH_GENERATION_END ==
    << "<", "|", "S", "P", "E", "E", "C", "H", "_", "G", "E", "N", "E", "R",
       "A", "T", "I", "O", "N", "_", "E", "N", "D", "|", ">" >>

TEXT_UNDERSTANDING_START ==
    << "<", "|", "T", "E", "X", "T", "_", "U", "N", "D", "E", "R", "S", "T",
       "A", "N", "D", "I", "N", "G", "_", "S", "T", "A", "R", "T", "|", ">" >>

TEXT_UNDERSTANDING_END ==
    << "<", "|", "T", "E", "X", "T", "_", "U", "N", "D", "E", "R", "S", "T",
       "A", "N", "D", "I", "N", "G", "_", "E", "N", "D", "|", ">" >>

INSTRUCTION ==
    << "C", "o", "n", "v", "e", "r", "t", " ", "t", "h", "e", " ", "t", "e",
       "x", "t", " ", "t", "o", " ", "s", "p", "e", "e", "c", "h", ":" >>

DefaultInputText ==
    << "H", "e", "l", "l", "o", ",", " ", "h", "o", "w", " ", "a", "r", "e",
       " ", "y", "o", "u", " ", "d", "o", "i", "n", "g", " ", "t", "o", "d",
       "a", "y", "?" >>

SpeechPrefix ==
    << "<", "|", "s", "_" >>

SpeechSuffix ==
    << "|", ">" >>

TokenJoint ==
    << ">", "<" >>

TokenJointWithComma ==
    << ">", ",", "<" >>

(***************************************************************************)
(* Python str and int operations used by the script.                       *)
(***************************************************************************)
Digits == {"0", "1", "2", "3", "4", "5", "6", "7", "8", "9"}

Whitespace == {" ", "\t", "\n", "\r"}

DigitVal(c) ==
    CASE c = "0" -> 0 [] c = "1" -> 1 [] c = "2" -> 2 [] c = "3" -> 3
      [] c = "4" -> 4 [] c = "5" -> 5 [] c = "6" -> 6 [] c = "7" -> 7
      [] c = "8" -> 8 [] c = "9" -> 9

\* str.startswith(prefix)
startswith(s, prefix) ==
    /\ Len(s) >= Len(prefix)
    /\ SubSeq(s, 1, Len(prefix)) = prefix

\* str.endswith(suffix)
endswith(s, suffix) ==
    /\ Len(s) >= Len(suffix)
    /\ SubSeq(s, Len(s) - Len(suffix) + 1, Len(s)) = suffix

\* str.replace(old, new) for a non-empty old: the leftmost non-overlapping
\* occurrences are replaced in one left-to-right pass; the result is not
\* scanned again.
RECURSIVE replace(_, _, _)
replace(s, old, new) ==
    IF Len(s) < Len(old) THEN s
    ELSE IF SubSeq(s, 1, Len(old)) = old
         THEN new \o replace(SubSeq(s, Len(old) + 1, Len(s)), old, new)
         ELSE <<Head(s)>> \o replace(Tail(s), old, new)

\* str.split(sep) for a non-empty sep: always at least one (possibly empty)
\* substring; cur is the substring being accumulated.
RECURSIVE SplitLoop(_, _, _)
SplitLoop(s, sep, cur) ==
    IF Len(s) < Len(sep) THEN <<cur \o s>>
    ELSE IF SubSeq(s, 1, Len(sep)) = sep
         THEN <<cur>> \o SplitLoop(SubSeq(s, Len(sep) + 1, Len(s)), sep, <<>>)
         ELSE SplitLoop(Tail(s), sep, Append(cur, Head(s)))

split(s, sep) == SplitLoop(s, sep, <<>>)

\* int(str): surrounding whitespace is stripped, one optional sign, then
\* decimal digits in which single underscores may separate digits; anything
\* else raises ValueError.  Only ASCII digits and the whitespace characters
\* below are modelled; no stream of the model holds any other digit or
\* whitespace character.
RECURSIVE lstrip(_)
lstrip(s) ==
    IF s # <<>> /\ Head(s) \in Whitespace THEN lstrip(Tail(s)) ELSE s

RECURSIVE rstrip(_)
rstrip(s) ==
    IF s # <<>> /\ s[Len(s)] \in Whitespace
    THEN rstrip(SubSeq(s, 1, Len(s) - 1))
    ELSE s

strip(s) == rstrip(lstrip(s))

Unsigned(s) ==
    IF s # <<>> /\ Head(s) \in {"+", "-"} THEN Tail(s) ELSE s

IsDecimal(d) ==
    /\ d # <<>>
    /\ d[1] \in Digits
    /\ d[Len(d)] \in Digits
    /\ \A i \in 1..Len(d) : d[i] \in Digits \cup {"_"}
    /\ \A i \in 1..(Len(d) - 1) : ~(d[i] = "_" /\ d[i + 1] = "_")

RECURSIVE Magnitude(_)
Magnitude(d) ==
    IF d = <<>> THEN 0
    ELSE LET last == d[Len(d)]
             init == SubSeq(d, 1, Len(d) - 1)
         IN  IF last = "_" THEN Magnitude(init)
             ELSE 10 * Magnitude(init) + DigitVal(last)

\* TRUE iff int(s) raises ValueError
int_raises(s) == ~IsDecimal(Unsigned(strip(s)))

\* the value of int(s) when it does not raise
int(s) ==
    LET t == strip(s)
    IN  IF Head(t) = "-" THEN 0 - Magnitude(Tail(t))
        ELSE Magnitude(Unsigned(t))

\* a slice that starts one character late: token_str[5:-2]
NumStrLate(token_str) == SubSeq(token_str, 6, Len(token_str) - 2)

\* token_str[4:-2]
NumStr(token_str) == SubSeq(token_str, 5, Len(token_str) - 2)

\* extract_speech_ids: the for loop from token i on, with the ids appended
\* and the "Unexpected token" lines written so far.  int() raising
\* ValueError ends the loop and the function with the exception.
RECURSIVE ExtractLoop(_, _, _, _)
ExtractLoop(speech_tokens_str, i, ids, lines) ==
    IF i > Len(speech_tokens_str)
    THEN [speech_ids |-> ids, unexpected |-> lines, raised |-> FALSE]
    ELSE LET token_str == speech_tokens_str[i]
         IN  IF /\ startswith(token_str, SpeechPrefix)
                /\ endswith(token_str, SpeechSuffix)
             THEN IF int_raises(NumStr(token_str))
                  THEN [speech_ids |-> ids, unexpected |-> lines,
                        raised |-> TRUE]
                  ELSE ExtractLoop(speech_tokens_str, i + 1,
                                   Append(ids, int(NumStr(token_str))), lines)
             ELSE ExtractLoop(speech_tokens_str, i + 1, ids,
                              Append(lines, token_str))

extract_speech_ids(speech_tokens_str) ==
    ExtractLoop(speech_tokens_str, 1, <<>>, <<>>)

(***************************************************************************)
(* Inputs: the text to synthesize and the stream the language model        *)
(* returns.  The model is external, so its stream is any concatenation of  *)
(* up to MaxPieces pieces: sentinels, well-formed and malformed speech     *)
(* tokens, a comma, and two halves of a token.                             *)
(***************************************************************************)
MaxPieces == 3

MaxListLen == 2

UnknownToken ==
    << "<", "|", "u", "n", "k", "n", "o", "w", "n", "|", ">" >>

Tok25105 ==
    << "<", "|", "s", "_", "2", "5", "1", "0", "5", "|", ">" >>

Tok8984 ==
    << "<", "|", "s", "_", "8", "9", "8", "4", "|", ">" >>

TokNegative ==
    << "<", "|", "s", "_", "-", "5", "|", ">" >>

TokNoDigits ==
    << "<", "|", "s", "_", "|", ">" >>

TokLetters ==
    << "<", "|", "s", "_", "a", "b", "c", "|", ">" >>

Comma ==
    << "," >>

TokOpenHalf ==
    << "<", "|", "s", "_", "1" >>

TokCloseHalf ==
    << "2", "|", ">" >>

ExampleStream ==
    << "<", "|", "S", "P", "E", "E", "C", "H", "_", "G", "E", "N", "E", "R",
       "A", "T", "I", "O", "N", "_", "S", "T", "A", "R", "T", "|", ">", "<",
       "|", "s", "_", "2", "5", "1", "0", "5", "|", ">", "<", "|", "s", "_",
       "8", "9", "8", "4", "|", ">", "<", "|", "s", "_", "2", "5", "1", "0",
       "5", "|", ">", "<", "|", "S", "P", "E", "E", "C", "H", "_", "G", "E",
       "N", "E", "R", "A", "T", "I", "O", "N", "_", "E", "N", "D", "|", ">" >>

TextHi ==
    << "H", "i" >>

ExampleHiContent ==
    << "C", "o", "n", "v", "e", "r", "t", " ", "t", "h", "e", " ", "t", "e",
       "x", "t", " ", "t", "o", " ", "s", "p", "e", "e", "c", "h", ":", "<",
       "|", "T", "E", "X", "T", "_", "U", "N", "D", "E", "R", "S", "T", "A",
       "N", "D", "I", "N", "G", "_", "S", "T", "A", "R", "T", "|", ">", "H",
       "i", "<", "|", "T", "E", "X", "T", "_", "U", "N", "D", "E", "R", "S",
       "T", "A", "N", "D", "I", "N", "G", "_", "E", "N", "D", "|", ">" >>

Pieces ==
    { SPEECH_GENERATION_START, SPEECH_GENERATION_END, UnknownToken,
      Tok25105, Tok8984, TokNegative, TokNoDigits, TokLetters,
      Comma, TokOpenHalf, TokCloseHalf }

RECURSIVE PieceStreams(_)
PieceStreams(n) ==
    IF n = 0 THEN { <<>> }
    ELSE LET S == PieceStreams(n - 1)
         IN  S \cup { s \o p : s \in S, p \in Pieces }

Streams == PieceStreams(MaxPieces) \cup { ExampleStream }

Texts ==
    { <<>>, TextHi, DefaultInputText,
      TEXT_UNDERSTANDING_END \o SPEECH_GENERATION_START }

(***************************************************************************)
(* State of one run of the script.                                         *)
(*   pc            the statement the script is at                          *)
(*   input_text    the text to synthesize                                  *)
(*   generator     the stream the language model returns when it succeeds  *)
(*   chat          the message list                                        *)
(*   input_ids     what apply_chat_template was asked to tokenize          *)
(*   outputs, speech_tokens, speech_ids   the script's variables           *)
(*   stdout        tokens reported by "Unexpected token: ..."              *)
(*   gen_calls     the prompts generate() was called with                  *)
(*   codec_calls   the id lists decode_code() was called with              *)
(*   files         the sf.write() calls that wrote a file                  *)
(*   error         the exception that ended the script, or "none"          *)
(*   stages        the pipeline stages entered so far, in order            *)
(***************************************************************************)
VARIABLES pc, input_text, generator, chat, input_ids, outputs,
          speech_tokens, speech_ids, stdout, gen_calls, codec_calls,
          files, error, stages

vars == << pc, input_text, generator, chat, input_ids, outputs,
           speech_tokens, speech_ids, stdout, gen_calls, codec_calls,
           files, error, stages >>

NoTemplate == [chat |-> <<>>, tokenize |-> FALSE,
               continue_final_message |-> FALSE]

InitWith(texts, streams) ==
    /\ pc = "build"
    /\ input_text \in texts
    /\ generator \in streams
    /\ chat = <<>>
    /\ input_ids = NoTemplate
    /\ outputs = <<>>
    /\ speech_tokens = <<>>
    /\ speech_ids = <<>>
    /\ stdout = <<>>
    /\ gen_calls = <<>>
    /\ codec_calls = <<>>
    /\ files = <<>>
    /\ error = "none"
    /\ stages = <<>>

Init == InitWith(Texts, Streams)

\* the prompt built without the text-understanding end marker and
\* templated as a finished assistant turn
BuildPromptNewTurn ==
    /\ pc = "build"
    /\ LET formatted_text == TEXT_UNDERSTANDING_START \o input_text
           msgs == << [role |-> "user", content |-> INSTRUCTION \o formatted_text],
                      [role |-> "assistant", content |-> SPEECH_GENERATION_START] >>
       IN  /\ chat' = msgs
           /\ input_ids' = [chat |-> msgs, tokenize |-> TRUE,
                            continue_final_message |-> FALSE]
    /\ stages' = Append(stages, "build")
    /\ pc' = "generate"
    /\ UNCHANGED << input_text, generator, outputs, speech_tokens, speech_ids,
                    stdout, gen_calls, codec_calls, files, error >>

\* lines 33-43: formatted_text, chat, apply_chat_template
BuildPrompt ==
    /\ pc = "build"
    /\ LET formatted_text ==
               TEXT_UNDERSTANDING_START \o input_text \o TEXT_UNDERSTANDING_END
           msgs == << [role |-> "user", content |-> INSTRUCTION \o formatted_text],
                      [role |-> "assistant", content |-> SPEECH_GENERATION_START] >>
       IN  /\ chat' = msgs
           /\ input_ids' = [chat |-> msgs, tokenize |-> TRUE,
                            continue_final_message |-> TRUE]
    /\ stages' = Append(stages, "build")
    /\ pc' = "generate"
    /\ UNCHANGED << input_text, generator, outputs, speech_tokens, speech_ids,
                    stdout, gen_calls, codec_calls, files, error >>

\* line 51: generate() returns the stream
Generate ==
    /\ pc = "generate"
    /\ gen_calls' = Append(gen_calls, input_ids)
    /\ outputs' = generator
    /\ stages' = Append(stages, "generate")
    /\ pc' = "strip"
    /\ UNCHANGED << input_text, generator, chat, input_ids, speech_tokens,
                    speech_ids, stdout, codec_calls, files, error >>

\* generate() raising inside a try/except that goes on with an empty stream
GenerateFailSwallowed ==
    /\ pc = "generate"
    /\ gen_calls' = Append(gen_calls, input_ids)
    /\ stages' = Append(stages, "generate")
    /\ error' = "GeneratorError"
    /\ outputs' = <<>>
    /\ pc' = "strip"
    /\ UNCHANGED << input_text, generator, chat, input_ids,
                    speech_tokens, speech_ids, stdout, codec_calls, files >>

\* line 51: generate() raises; nothing catches it
GenerateFail ==
    /\ pc = "generate"
    /\ gen_calls' = Append(gen_calls, input_ids)
    /\ stages' = Append(stages, "generate")
    /\ error' = "GeneratorError"
    /\ pc' = "failed"
    /\ UNCHANGED << input_text, generator, chat, input_ids, outputs,
                    speech_tokens, speech_ids, stdout, codec_calls, files >>

\* line 55: outputs.replace('<|SPEECH_GENERATION_START|>', '')
StripSentinel ==
    /\ pc = "strip"
    /\ outputs' = replace(outputs, SPEECH_GENERATION_START, <<>>)
    /\ stages' = Append(stages, "parse")
    /\ pc' = "split"
    /\ UNCHANGED << input_text, generator, chat, input_ids, speech_tokens,
                    speech_ids, stdout, gen_calls, codec_calls, files, error >>

\* lines 63-66: outputs.replace('><', '>,<') and outputs.split(',')
SplitTokens ==
    /\ pc = "split"
    /\ LET joined == replace(outputs, TokenJoint, TokenJointWithComma)
       IN  /\ outputs' = joined
           /\ speech_tokens' = split(joined, Comma)
    /\ pc' = "extract"
    /\ UNCHANGED << input_text, generator, chat, input_ids, speech_ids,
                    stdout, gen_calls, codec_calls, files, error, stages >>

\* lines 71-76: extract_speech_ids(speech_tokens), then int(x) of each id
ExtractIds ==
    /\ pc = "extract"
    /\ LET r == extract_speech_ids(speech_tokens)
       IN  /\ stdout' = r.unexpected
           /\ IF r.raised
              THEN /\ error' = "ValueError"
                   /\ pc' = "failed"
                   /\ UNCHANGED << speech_ids, speech_tokens >>
              ELSE /\ speech_ids' = r.speech_ids
                   /\ speech_tokens' = r.speech_ids
                   /\ pc' = "decode"
                   /\ UNCHANGED error
    /\ UNCHANGED << input_text, generator, chat, input_ids, outputs,
                    gen_calls, codec_calls, files, stages >>

Reverse(s) == [i \in 1..Len(s) |-> s[Len(s) + 1 - i]]

\* the codec called with the ids in reverse order
DecodeReversed ==
    /\ pc = "decode"
    /\ codec_calls' = Append(codec_calls, Reverse(speech_tokens))
    /\ stages' = Append(stages, "decode")
    /\ pc' = "write"
    /\ UNCHANGED << input_text, generator, chat, input_ids, outputs,
                    speech_tokens, speech_ids, stdout, gen_calls, files,
                    error >>

\* lines 78-81: torch.tensor(speech_tokens) and Codec_model.decode_code
Decode ==
    /\ pc = "decode"
    /\ codec_calls' = Append(codec_calls, speech_tokens)
    /\ stages' = Append(stages, "decode")
    /\ pc' = "write"
    /\ UNCHANGED << input_text, generator, chat, input_ids, outputs,
                    speech_tokens, speech_ids, stdout, gen_calls, files,
                    error >>

\* line 81: decode_code raises; nothing catches it
DecodeFail ==
    /\ pc = "decode"
    /\ codec_calls' = Append(codec_calls, speech_tokens)
    /\ stages' = Append(stages, "decode")
    /\ error' = "CodecError"
    /\ pc' = "failed"
    /\ UNCHANGED << input_text, generator, chat, input_ids, outputs,
                    speech_tokens, speech_ids, stdout, gen_calls, files >>

SampleRate == 16000

\* line 84: sf.write("gen.wav", ..., 16000)
WriteFile ==
    /\ pc = "write"
    /\ files' = Append(files, [path |-> "gen.wav", samplerate |-> SampleRate,
                               codes |-> codec_calls[Len(codec_calls)]])
    /\ stages' = Append(stages, "write")
    /\ pc' = "done"
    /\ UNCHANGED << input_text, generator, chat, input_ids, outputs,
                    speech_tokens, speech_ids, stdout, gen_calls, codec_calls,
                    error >>

\* line 84: sf.write raises (unwritable path); nothing catches it
WriteFail ==
    /\ pc = "write"
    /\ stages' = Append(stages, "write")
    /\ error' = "WriteError"
    /\ pc' = "failed"
    /\ UNCHANGED << input_text, generator, chat, input_ids, outputs,
                    speech_tokens, speech_ids, stdout, gen_calls, codec_calls,
                    files >>

Next ==
    \/ BuildPrompt
    \/ Generate
    \/ GenerateFail
    \/ StripSentinel
    \/ SplitTokens
    \/ ExtractIds
    \/ Decode
    \/ DecodeFail
    \/ WriteFile
    \/ WriteFail

Spec == Init /\ [][Next]_vars

(***************************************************************************)
(* Round-trip inputs: the stream built from a list of token ids.           *)
(***************************************************************************)
TokenIds == {0, 7, 10, 8984, 25105}

RECURSIVE ListsUpTo(_)
ListsUpTo(n) ==
    IF n = 0 THEN { <<>> }
    ELSE LET S == ListsUpTo(n - 1)
         IN  S \cup { Append(l, id) : l \in S, id \in TokenIds }

Lists == ListsUpTo(MaxListLen)

DigitChar(d) ==
    CASE d = 0 -> "0" [] d = 1 -> "1" [] d = 2 -> "2" [] d = 3 -> "3"
      [] d = 4 -> "4" [] d = 5 -> "5" [] d = 6 -> "6" [] d = 7 -> "7"
      [] d = 8 -> "8" [] d = 9 -> "9"

\* the decimal text of a non-negative integer, as in f"<|s_{n}|>"
RECURSIVE str(_)
str(n) ==
    IF n < 10 THEN <<DigitChar(n)>>
    ELSE str(n \div 10) \o <<DigitChar(n % 10)>>

RECURSIVE ConcatTokens(_)
ConcatTokens(L) ==
    IF L = <<>> THEN <<>>
    ELSE SpeechPrefix \o str(Head(L)) \o SpeechSuffix \o ConcatTokens(Tail(L))

Encode(L) == SPEECH_GENERATION_START \o ConcatTokens(L)

InitRoundTrip == InitWith({DefaultInputText}, { Encode(L) : L \in Lists })

SpecRoundTrip == InitRoundTrip /\ [][Next]_vars

Parsed == {"decode", "write", "done"}

\* C1: for every list L of non-negative integers, the stream
\* <|SPEECH_GENERATION_START|> followed by <|s_n|> for each n of L parses
\* without an exception to exactly L (same length, same order).
C1_RoundTrip ==
    \A L \in Lists :
        generator = Encode(L) =>
            /\ error # "ValueError"
            /\ pc \in Parsed => speech_ids = L

C1_Witness ==
    /\ pc = "decode"
    /\ Len(speech_ids) >= 2
    /\ speech_ids[1] = speech_ids[2]
    /\ speech_ids[1] > 9
    /\ generator = Encode(speech_ids)

\* C2: the codec is never called with an empty id sequence and no file is
\* written from one.
C2_EmptyNeverDecoded ==
    /\ \A i \in DOMAIN codec_calls : codec_calls[i] # <<>>
    /\ \A i \in DOMAIN files : files[i].codes # <<>>

(***************************************************************************)
(* Reference reading of a stream as a concatenation of bracketed tokens.   *)
(***************************************************************************)
RECURSIVE CutAfterClose(_, _)
CutAfterClose(s, cur) ==
    IF s = <<>> THEN (IF cur = <<>> THEN <<>> ELSE <<cur>>)
    ELSE IF Head(s) = ">"
         THEN <<Append(cur, ">")>> \o CutAfterClose(Tail(s), <<>>)
         ELSE CutAfterClose(Tail(s), Append(cur, Head(s)))

IsBracketed(t) ==
    /\ Len(t) >= 2
    /\ t[1] = "<"
    /\ t[Len(t)] = ">"
    /\ \A i \in 2..(Len(t) - 1) : t[i] \notin {"<", ">"}

IsSpeechToken(t) ==
    /\ startswith(t, SpeechPrefix)
    /\ endswith(t, SpeechSuffix)
    /\ Len(t) > Len(SpeechPrefix) + Len(SpeechSuffix)
    /\ \A i \in (Len(SpeechPrefix) + 1)..(Len(t) - Len(SpeechSuffix)) :
           t[i] \in Digits

\* the stream without one leading start sentinel
Body(s) ==
    IF startswith(s, SPEECH_GENERATION_START)
    THEN SubSeq(s, Len(SPEECH_GENERATION_START) + 1, Len(s))
    ELSE s

BodyTokens(s) == CutAfterClose(Body(s), <<>>)

IsTokenStream(s) ==
    \A i \in DOMAIN BodyTokens(s) :
        /\ IsBracketed(BodyTokens(s)[i])
        /\ BodyTokens(s)[i] # SPEECH_GENERATION_START

RECURSIVE SelectTokens(_, _)
SelectTokens(toks, keepValid) ==
    IF toks = <<>> THEN <<>>
    ELSE IF IsSpeechToken(Head(toks)) = keepValid
         THEN <<Head(toks)>> \o SelectTokens(Tail(toks), keepValid)
         ELSE SelectTokens(Tail(toks), keepValid)

DigitsOf(t) == SubSeq(t, Len(SpeechPrefix) + 1, Len(t) - Len(SpeechSuffix))

Count(seq, x) == Cardinality({ i \in DOMAIN seq : seq[i] = x })

\* C3: a stream of bracketed tokens, some valid speech tokens and the others
\* unrecognized tokens or the end sentinel, parses without an exception to
\* the integers of the valid tokens in order, and each other token is
\* reported once per occurrence.
C3_Robust ==
    IsTokenStream(generator) =>
        LET toks == BodyTokens(generator)
            valid == SelectTokens(toks, TRUE)
            others == SelectTokens(toks, FALSE)
        IN  /\ error # "ValueError"
            /\ pc \in Parsed =>
                 /\ Len(speech_ids) = Len(valid)
                 /\ \A i \in DOMAIN valid :
                        speech_ids[i] = Magnitude(DigitsOf(valid[i]))
                 /\ \A i \in DOMAIN others :
                        Count(stdout, others[i]) = Count(others, others[i])

\* C4: extract_speech_ids never raises.
C4_NeverRaises == error # "ValueError"

\* C5: every id the parser returns and every id handed to the codec is a
\* non-negative integer.
C5_NonNegative ==
    /\ \A i \in DOMAIN speech_ids : speech_ids[i] >= 0
    /\ \A c \in DOMAIN codec_calls :
           \A i \in DOMAIN codec_calls[c] : codec_calls[c][i] >= 0

\* C6: the prompt has exactly two entries, user then assistant; the user
\* content is the instruction, the start marker, the text and the end
\* marker; the assistant content is exactly the generation-start sentinel;
\* the generator is called on that prompt in continue-final-message mode.
C6_Prompt ==
    /\ pc # "build" =>
         /\ Len(chat) = 2
         /\ chat[1].role = "user"
         /\ chat[1].content =
                INSTRUCTION \o TEXT_UNDERSTANDING_START \o input_text
                    \o TEXT_UNDERSTANDING_END
         /\ input_text = TextHi => chat[1].content = ExampleHiContent
         /\ chat[2].role = "assistant"
         /\ chat[2].content = SPEECH_GENERATION_START
    /\ \A i \in DOMAIN gen_calls :
         /\ gen_calls[i].chat = chat
         /\ gen_calls[i].continue_final_message
         /\ Len(gen_calls[i].chat) = 2

C6_Witness ==
    /\ pc = "strip"
    /\ input_text = TEXT_UNDERSTANDING_END \o SPEECH_GENERATION_START
    /\ Len(gen_calls) = 1

\* C7: only one start sentinel, and only at the very start of the stream,
\* is removed; a later occurrence stays in the stream.
C7_OnlyLeadingStripped ==
    pc = "split" => outputs = Body(generator)

RECURSIVE Flatten(_)
Flatten(seqs) ==
    IF seqs = <<>> THEN <<>> ELSE Head(seqs) \o Flatten(Tail(seqs))

\* C8: the stream is cut only between a ">" and the "<" right after it:
\* the token substrings concatenate to the stripped stream and every cut
\* has ">" on its left and "<" on its right.
C8_SplitOnlyAtJoints ==
    pc = "extract" =>
        /\ Flatten(speech_tokens)
               = replace(generator, SPEECH_GENERATION_START, <<>>)
        /\ \A i \in 1..(Len(speech_tokens) - 1) :
               /\ endswith(speech_tokens[i], <<">">>)
               /\ startswith(speech_tokens[i + 1], <<"<">>)

StageOrder == <<"build", "generate", "parse", "decode", "write">>

\* C9: the stages run in the order build, generate, parse, decode, write;
\* the generator and the codec are each called at most once; the codec gets
\* exactly the ids the parser returned; a finished run wrote exactly one
\* file, at 16000 Hz, and no other run wrote any.
C9_StageOrder ==
    /\ Len(stages) <= Len(StageOrder)
    /\ stages = SubSeq(StageOrder, 1, Len(stages))
    /\ Len(gen_calls) <= 1
    /\ Len(codec_calls) <= 1
    /\ gen_calls # <<>> => Len(chat) = 2
    /\ codec_calls # <<>> => gen_calls # <<>> /\ codec_calls[1] = speech_ids
    /\ pc = "done" =>
         /\ Len(files) = 1
         /\ files[1].samplerate = 16000
         /\ codec_calls # <<>>
    /\ pc # "done" => files = <<>>

C9_Witness ==
    /\ pc = "done"
    /\ Len(files) = 1
    /\ Len(speech_ids) >= 2
    /\ speech_ids[1] # speech_ids[2]
    /\ stages = StageOrder

\* C10: a failed generate() ends the run before the parser, the codec and
\* the file write; a failed decode_code() ends it before the file write;
\* the failed collaborator was called once, no file exists and no further
\* step is taken.
C10_FailureTerminal ==
    /\ error = "GeneratorError" =>
         /\ pc = "failed"
         /\ stages = <<"build", "generate">>
         /\ Len(gen_calls) = 1
         /\ speech_tokens = <<>> /\ speech_ids = <<>> /\ stdout = <<>>
         /\ codec_calls = <<>>
         /\ files = <<>>
         /\ ~ENABLED Next
    /\ error = "CodecError" =>
         /\ pc = "failed"
         /\ stages = <<"build", "generate", "parse", "decode">>
         /\ Len(gen_calls) = 1
         /\ Len(codec_calls) = 1
         /\ files = <<>>
         /\ ~ENABLED Next

C10_Witness ==
    /\ error = "CodecError"
    /\ pc = "failed"
    /\ Len(codec_calls) = 1
    /\ codec_calls[1] # <<>>

====
